---- MODULE Spec2Model ----
(***************************************************************************)
(* ExpoFileSystemStorage: a redux-persist storage engine that keeps one    *)
(* file per key under a storage directory of the device's file system.     *)
(*                                                                         *)
(* The model follows the class of the current source: the constructor      *)
(* starts initialize() and keeps its promise; every public operation       *)
(* first awaits waitForInitialization(), then issues its file-system       *)
(* calls one await at a time.  Each await of the source is one step of the *)
(* model, so operations interleave exactly where the code can be           *)
(* suspended.  The file system (expo-file-system) is the environment: a    *)
(* directory with files, each call of which may also fail for a reason     *)
(* the engine does not control ("EIO").                                    *)
(***************************************************************************)
EXTENDS Integers, Sequences, FiniteSets, TLC

\* ------------------------------------------------------------------ bounds

\* Operations invoked on the instance in one behaviour, one after the other.
MaxOps == 3
\* Operations invoked in one behaviour when they may overlap.
MaxOverlapOps == 2
\* File-system calls that fail for a reason of the device in one behaviour.
MaxFaults == 1
\* Code units of a key pathForKey is applied to on its own.
MaxKeyLen == 2
\* Levels of nesting of a value whose JSON text deepParseJson is applied to.
MaxJsonDepth == 3
\* Operations each of two instances is run through, one instance after the other.
MaxReplayOps == 2

\* ------------------------------------------------------------- characters

Lower ==
    {"a","b","c","d","e","f","g","h","i","j","k","l","m",
     "n","o","p","q","r","s","t","u","v","w","x","y","z"}
Upper ==
    {"A","B","C","D","E","F","G","H","I","J","K","L","M",
     "N","O","P","Q","R","S","T","U","V","W","X","Y","Z"}
Digits == {"0","1","2","3","4","5","6","7","8","9"}

\* Code units: the ASCII ones the model uses, and some beyond ASCII, named
\* by their code: the long s and the Kelvin sign, whose case variants are
\* ASCII letters, and the two halves of a surrogate pair.
AsciiChars == Lower \cup Upper \cup Digits \cup {".", "-", "_", ":", "/", " ", "%"}

\* String.prototype.toUpperCase of one code unit.
ToUpperCase(c) ==
    CASE c = "a" -> "A" [] c = "b" -> "B" [] c = "c" -> "C" [] c = "d" -> "D"
      [] c = "e" -> "E" [] c = "f" -> "F" [] c = "g" -> "G" [] c = "h" -> "H"
      [] c = "i" -> "I" [] c = "j" -> "J" [] c = "k" -> "K" [] c = "l" -> "L"
      [] c = "m" -> "M" [] c = "n" -> "N" [] c = "o" -> "O" [] c = "p" -> "P"
      [] c = "q" -> "Q" [] c = "r" -> "R" [] c = "s" -> "S" [] c = "t" -> "T"
      [] c = "u" -> "U" [] c = "v" -> "V" [] c = "w" -> "W" [] c = "x" -> "X"
      [] c = "y" -> "Y" [] c = "z" -> "Z"
      [] c = "U+017F" -> "S"
      [] OTHER -> c

\* Canonicalize of a regular expression with the i flag and without the u
\* flag, as written with the u flag: the upper case of the code unit, always.
CanonicalizeUnicode(c) == ToUpperCase(c)

\* Canonicalize of a regular expression with the i flag and without the u
\* flag: the upper case of the code unit, except that a code unit beyond
\* ASCII is never taken to an ASCII one.
Canonicalize(c) ==
    LET cu == ToUpperCase(c)
    IN  IF c \notin AsciiChars /\ cu \in AsciiChars THEN c ELSE cu

\* The members of the class a-z0-9.\-_ as it is written.
ClassChars == Lower \cup Digits \cup {".", "-", "_"}

\* /[^a-z0-9.\-_]/i matches the code unit: no member of the class has its
\* canonical form.
MatchesUnsafe(c) == \A m \in ClassChars : Canonicalize(m) # Canonicalize(c)

\* A pathForKey that names the file by the key as it is given.
EncodeKeyVerbatim(key) == key

\* key.replace(/[^a-z0-9.\-_]/gi, "-"): strings are sequences of code
\* units, and every match is replaced.
EncodeKey(key) ==
    [i \in 1..Len(key) |-> IF MatchesUnsafe(key[i]) THEN "-" ELSE key[i]]

\* pathForKey: `${this.options.storagePath}${fileName}`.
PathForKey(sp, key) == sp \o EncodeKey(key)

\* decodeURIComponent: a "%" starts an escape of two hexadecimal digits and
\* anything else stands for itself; a "%" not followed by two hexadecimal
\* digits is a URIError.  The escapes of the characters the keys of the
\* model use are decoded, any other escape to "?".
HexDigits == Digits \cup {"a","b","c","d","e","f","A","B","C","D","E","F"}
UnescapeChar(h1, h2) ==
    CASE h1 = "3" /\ h2 \in {"A", "a"} -> ":"
      [] h1 = "2" /\ h2 \in {"F", "f"} -> "/"
      [] h1 = "2" /\ h2 = "5" -> "%"
      [] h1 = "2" /\ h2 \in {"D", "d"} -> "-"
      [] OTHER -> "?"
RECURSIVE DecodeURIComponent(_)
DecodeURIComponent(s) ==
    IF s = <<>> THEN [ok |-> TRUE, val |-> <<>>]
    ELSE IF Head(s) # "%"
    THEN LET rest == DecodeURIComponent(Tail(s))
         IN  [ok |-> rest.ok, val |-> IF rest.ok THEN <<Head(s)>> \o rest.val ELSE <<>>]
    ELSE IF Len(s) >= 3 /\ s[2] \in HexDigits /\ s[3] \in HexDigits
    THEN LET rest == DecodeURIComponent(SubSeq(s, 4, Len(s)))
         IN  [ok |-> rest.ok,
              val |-> IF rest.ok THEN <<UnescapeChar(s[2], s[3])>> \o rest.val ELSE <<>>]
    ELSE [ok |-> FALSE, val |-> <<>>]

\* ----------------------------------------------------------------- inputs

\* Keys the callers use: two that differ only in an unsafe character, and one
\* made of safe characters only.
Keys == { <<"a", ":", "b">>, <<"a", "/", "b">>, <<"c">> }
\* Values the callers store; the empty string is a value like any other.
Values == {"", "x"}
NoKey == <<>>
NoValue == ""

\* options.storagePath: the default ends in a separator; a caller's may not.
DirName == <<"d">>
Separator == <<"/">>
DefaultStoragePath == DirName \o Separator
\* A storagePath of the caller replaces the default as it is given.
StoragePaths == {DefaultStoragePath, DirName}

\* Every path the operations can name.
FilePaths == {PathForKey(x[1], x[2]) : x \in StoragePaths \X Keys}

\* A path is inside the storage directory iff it starts with "<dir>/".
IsPrefix(p, q) == Len(p) <= Len(q) /\ SubSeq(q, 1, Len(p)) = p
InStorageDir(path) == IsPrefix(DirName \o Separator, path)
\* The entry name of a path inside the storage directory.
EntryName(path) == SubSeq(path, Len(DirName) + 2, Len(path))

\* ----------------------------------------------------------------- values

\* Error objects.  Two errors are the same object iff they are equal here:
\* an error of the file system carries the call and the cause, the error
\* handleStorageError constructs for onFail carries the prefix, and the
\* errors thrown by a callback or a hook are of their own kind.
NoError == [kind |-> "none", call |-> "", code |-> "", prefix |-> ""]
FsError(call, code) == [kind |-> "fs", call |-> call, code |-> code, prefix |-> ""]
CallbackError(who) == [kind |-> "callback", call |-> who, code |-> "thrown", prefix |-> ""]
HookError(who) == [kind |-> "hook", call |-> who, code |-> "thrown", prefix |-> ""]
UriError == [kind |-> "uri", call |-> "decodeURIComponent", code |-> "URIError", prefix |-> ""]
\* new Error(`${errorMessage}: ${error.message}`)
WrappedError(prefix, e) ==
    [kind |-> "wrapped", call |-> e.call, code |-> e.code, prefix |-> prefix]

\* What a promise resolves to, and what onSuccess is given.
NoResult == [kind |-> "none", str |-> "", seq |-> <<>>, bool |-> FALSE]
VoidResult == [kind |-> "void", str |-> "", seq |-> <<>>, bool |-> FALSE]
StrResult(s) == [kind |-> "str", str |-> s, seq |-> <<>>, bool |-> FALSE]
SeqResult(q) == [kind |-> "seq", str |-> "", seq |-> q, bool |-> FALSE]
BoolResult(b) == [kind |-> "bool", str |-> "", seq |-> <<>>, bool |-> b]

\* ------------------------------------------------------------------ state

VARIABLES
    \* options
    storagePath,            \* options.storagePath
    debug,                  \* options.debug
    hasBeforeInit,          \* options.beforeInit is supplied
    hasAfterInit,           \* options.afterInit is supplied
    \* fields of the instance
    isInitialized,          \* this.isInitialized
    initializationPromise,  \* this.initializationPromise: pending, resolved, rejected
    initError,              \* what a rejected initializationPromise rejects with
    readKeys,               \* this.readKeys
    \* the initialize() task
    initPc,                 \* where initialize() is suspended
    \* the file system
    fsDir,                  \* the storage directory exists
    fsFiles,                \* path -> <<content>>, or <<>> when there is no file
    \* the operations in flight
    calls,                  \* slot -> the frame of the call running in it
    invoked,                \* operations invoked so far
    scenario,               \* the callers await each call ("sequence") or not ("overlap")
    faults,                 \* file-system calls that have failed for a reason of the device
    lastDone,               \* the last call that ran alone, once it has returned
    \* what the sinks and hooks have seen
    debugSink,              \* the guards under which logger.debug was invoked
    initErrorLogged,        \* logger.error was invoked by initialize()
    nBeforeInit,            \* invocations of options.beforeInit
    nAfterInit,             \* invocations of options.afterInit
    fsWhilePending,         \* an operation touched the file system before initialize() settled
    \* what the callers have done
    \* a function applied on its own
    arg,                    \* the argument it is applied to
    ret,                    \* what it has returned
    readSince,              \* keys getItem was called for since construction or the last clear()
    everSet,                \* keys setItem was ever called for
    \* two instances run through the same operations, one after the other
    script,                 \* what the callers, the callbacks, the hooks and the file system do
    firstRun,               \* what was observed of the first instance, once it is through
    observed                \* what has been observed of the instance that is running

options == <<storagePath, debug, hasBeforeInit, hasAfterInit>>
instance == <<isInitialized, initializationPromise, initError, readKeys, initPc>>
fileSystem == <<fsDir, fsFiles>>
sinks == <<debugSink, initErrorLogged, nBeforeInit, nAfterInit, fsWhilePending>>
callers == <<invoked, scenario>>
history == <<readSince, everSet>>
applied == <<arg, ret>>
replay == <<script, firstRun, observed>>
vars == <<options, instance, fileSystem, calls, callers, faults, lastDone, sinks, history, applied,
          replay>>

\* ------------------------------------------------------------ file system

\* A file-system call can fail for a reason of the device while the
\* behaviour has such failures left.
FaultChoices == IF faults < MaxFaults THEN BOOLEAN ELSE {FALSE}
Faulted(fault) == IF fault THEN faults + 1 ELSE faults

NoFile == <<>>
FileOf(content) == <<content>>
EmptyDir == [p \in FilePaths |-> NoFile]

\* FileSystem.getInfoAsync(path).exists
PathExists(path) ==
    IF path \in StoragePaths THEN fsDir
    ELSE path \in FilePaths /\ fsFiles[path] # NoFile

\* FileSystem.readAsStringAsync(path): the content, or the failure.
ReadFile(path, fault) ==
    IF fault THEN [ok |-> FALSE, content |-> "", error |-> FsError("readAsStringAsync", "EIO")]
    ELSE IF fsFiles[path] # NoFile
    THEN [ok |-> TRUE, content |-> fsFiles[path][1], error |-> NoError]
    ELSE [ok |-> FALSE, content |-> "", error |-> FsError("readAsStringAsync", "ENOENT")]

\* A writeAsStringAsync that leaves alone a file that is there: the first
\* write wins.
WriteFileIfAbsent(path, value, fault) ==
    IF fault THEN [ok |-> FALSE, files |-> fsFiles, error |-> FsError("writeAsStringAsync", "EIO")]
    ELSE IF InStorageDir(path) /\ ~fsDir
    THEN [ok |-> FALSE, files |-> fsFiles, error |-> FsError("writeAsStringAsync", "ENOENT")]
    ELSE [ok |-> TRUE,
          files |-> IF fsFiles[path] = NoFile THEN [fsFiles EXCEPT ![path] = FileOf(value)]
                    ELSE fsFiles,
          error |-> NoError]

\* FileSystem.writeAsStringAsync(path, value): the file is created or
\* overwritten whole; there is no file without its directory.
WriteFile(path, value, fault) ==
    IF fault THEN [ok |-> FALSE, files |-> fsFiles, error |-> FsError("writeAsStringAsync", "EIO")]
    ELSE IF InStorageDir(path) /\ ~fsDir
    THEN [ok |-> FALSE, files |-> fsFiles, error |-> FsError("writeAsStringAsync", "ENOENT")]
    ELSE [ok |-> TRUE, files |-> [fsFiles EXCEPT ![path] = FileOf(value)], error |-> NoError]

\* FileSystem.deleteAsync(path, {idempotent}) of a file: deleting what is
\* not there is a failure unless the call is idempotent.
DeleteFile(path, idempotent, fault) ==
    IF fault THEN [ok |-> FALSE, files |-> fsFiles, error |-> FsError("deleteAsync", "EIO")]
    ELSE IF ~idempotent /\ fsFiles[path] = NoFile
    THEN [ok |-> FALSE, files |-> fsFiles, error |-> FsError("deleteAsync", "ENOENT")]
    ELSE [ok |-> TRUE, files |-> [fsFiles EXCEPT ![path] = NoFile], error |-> NoError]

\* FileSystem.deleteAsync(storagePath, {idempotent: true}): the directory
\* goes with everything in it.
DeleteDir(fault) ==
    IF fault
    THEN [ok |-> FALSE, dir |-> fsDir, files |-> fsFiles, error |-> FsError("deleteAsync", "EIO")]
    ELSE [ok |-> TRUE, dir |-> FALSE,
          files |-> [p \in FilePaths |-> IF InStorageDir(p) THEN NoFile ELSE fsFiles[p]],
          error |-> NoError]

\* FileSystem.makeDirectoryAsync(storagePath, {intermediates: true})
MakeDir(fault) ==
    IF fault THEN [ok |-> FALSE, dir |-> fsDir, error |-> FsError("makeDirectoryAsync", "EIO")]
    ELSE [ok |-> TRUE, dir |-> TRUE, error |-> NoError]

\* The names FileSystem.readDirectoryAsync(storagePath) can yield.
DirEntries == {EntryName(p) : p \in {q \in FilePaths : InStorageDir(q) /\ fsFiles[q] # NoFile}}

\* The orders in which a listing can yield a set of names.
Orderings(S) ==
    {q \in [1..Cardinality(S) -> S] : \A i, j \in 1..Cardinality(S) : i # j => q[i] # q[j]}

\* FileSystem.readDirectoryAsync(storagePath): one of the orders, or the failure.
ReadDirectory(fault) ==
    IF fault
    THEN {[ok |-> FALSE, names |-> <<>>, error |-> FsError("readDirectoryAsync", "EIO")]}
    ELSE IF ~fsDir
    THEN {[ok |-> FALSE, names |-> <<>>, error |-> FsError("readDirectoryAsync", "ENOENT")]}
    ELSE {[ok |-> TRUE, names |-> q, error |-> NoError] : q \in Orderings(DirEntries)}

\* FileSystem.getInfoAsync(path)
GetInfo(path, fault) ==
    IF fault THEN [ok |-> FALSE, exists |-> FALSE, error |-> FsError("getInfoAsync", "EIO")]
    ELSE [ok |-> TRUE, exists |-> PathExists(path), error |-> NoError]

\* ---------------------------------------------------------------- logging

\* A logDebugMessageInDebugMode that does not look at the debug option.
LogDebugInAnyMode(sink) == sink \cup {"debugMode"}

\* logDebugMessageInDebugMode reaches logger.debug only in debug mode;
\* logDebugMessage reaches it always.  debugSink keeps which of the two
\* ways have reached the sink.
LogDebugInDebugMode(sink) == IF debug THEN sink \cup {"debugMode"} ELSE sink
LogDebug(sink) == sink \cup {"direct"}

\* ----------------------------------------------------------------- frames

\* The frames of the calls in flight: two calls can overlap.
Slots == {1, 2}

KeyOps == {"getItem", "setItem", "removeItem", "itemExists"}
CallbackOps == {"getItem", "setItem", "removeItem", "clear", "getAllKeys"}
Ops == CallbackOps \cup {"itemExists", "hasStoredItems", "logStoredItems"}

\* What is remembered of the last call: the change it made to the store
\* when it resolved, and only that it was made otherwise.
NoSummary == [op |-> "none", key |-> NoKey, val |-> NoValue]
Summary(f) ==
    IF f.status = "resolved" /\ f.op \in {"setItem", "removeItem", "clear"}
    THEN [op |-> f.op, key |-> f.key, val |-> f.val]
    ELSE [op |-> "other", key |-> NoKey, val |-> NoValue]

\* The frame of one call: its arguments, where it is suspended, its locals,
\* how it settled, and what its callbacks and the sinks saw of it.
IdleFrame ==
    [op |-> "none", key |-> NoKey, val |-> NoValue, onSuccess |-> FALSE, onFail |-> FALSE,
     pc |-> "idle", first |-> FALSE, err |-> NoError, names |-> <<>>, todo |-> {},
     status |-> "none", result |-> NoResult, error |-> NoError,
     nSuccess |-> 0, successArg |-> NoResult, nFail |-> 0, failArg |-> NoError,
     nErrLog |-> 0, fsCalls |-> 0, fsError |-> NoError, fault |-> FALSE,
     successThrew |-> FALSE, failThrew |-> FALSE,
     early |-> FALSE, stored |-> FALSE, readBefore |-> FALSE,
     solo |-> FALSE, prev |-> NoSummary]

\* The callbacks a caller passes: none, or both.
Callbacks == {[onSuccess |-> b, onFail |-> b] : b \in BOOLEAN}

\* The calls a caller can make: an argument an operation does not take is left out.
Calls ==
    {[op |-> "getItem", key |-> k, val |-> NoValue, onSuccess |-> cb.onSuccess, onFail |-> cb.onFail] :
        k \in Keys, cb \in Callbacks}
    \cup {[op |-> "setItem", key |-> k, val |-> v, onSuccess |-> cb.onSuccess, onFail |-> cb.onFail] :
        k \in Keys, v \in Values, cb \in Callbacks}
    \cup {[op |-> "removeItem", key |-> k, val |-> NoValue, onSuccess |-> cb.onSuccess, onFail |-> cb.onFail] :
        k \in Keys, cb \in Callbacks}
    \cup {[op |-> o, key |-> NoKey, val |-> NoValue, onSuccess |-> cb.onSuccess, onFail |-> cb.onFail] :
        o \in {"clear", "getAllKeys"}, cb \in Callbacks}
    \cup {[op |-> "itemExists", key |-> k, val |-> NoValue, onSuccess |-> FALSE, onFail |-> FALSE] :
        k \in Keys}
    \cup {[op |-> o, key |-> NoKey, val |-> NoValue, onSuccess |-> FALSE, onFail |-> FALSE] :
        o \in {"hasStoredItems", "logStoredItems"}}

Running(i) == calls[i].pc \notin {"idle", "done"}
NoneDone == \A i \in Slots : calls[i].pc # "done"

\* The promise of the call settles.
Resolve(f, result) == [f EXCEPT !.pc = "done", !.status = "resolved", !.result = result]
Reject(f, e) == [f EXCEPT !.pc = "done", !.status = "rejected", !.error = e]

\* A file-system call of the frame was issued, and how it ended.
Issued(f, r, fault) ==
    [f EXCEPT !.fsCalls = @ + 1,
              !.fault = @ \/ fault,
              !.fsError = IF ~r.ok /\ @ = NoError THEN r.error ELSE @]

\* A handleStorageError that throws the error it has made for onFail.
RethrownWrapped(e, wrapped) == wrapped

\* What handleStorageError throws once it has logged and onFail has returned.
Rethrown(e, wrapped) == e

\* handleStorageError up to its await: the message is logged through the
\* error sink and, when onFail is supplied, onFail is called with a new
\* Error of that message; without onFail the original error is thrown.
HandleStorageError(f, prefix, e) ==
    LET logged == [f EXCEPT !.nErrLog = @ + 1, !.err = e]
    IN  IF f.onFail
        THEN [logged EXCEPT !.nFail = @ + 1, !.failArg = WrappedError(prefix, e), !.pc = "onFail"]
        ELSE Reject(logged, Rethrown(e, WrappedError(prefix, e)))

\* The end of a try block: onSuccess, when supplied, is called with the
\* result and awaited; without it the promise resolves.
Succeed(f, result) ==
    IF f.onSuccess
    THEN [f EXCEPT !.nSuccess = @ + 1, !.successArg = result, !.pc = "onSuccess"]
    ELSE Resolve(f, result)

\* ------------------------------------------------------------------- Init

\* The options a caller constructs the instance with: the hooks and the
\* debug mode.
Options ==
    {[debug |-> FALSE, beforeInit |-> FALSE, afterInit |-> FALSE],
     [debug |-> TRUE, beforeInit |-> FALSE, afterInit |-> FALSE],
     [debug |-> FALSE, beforeInit |-> TRUE, afterInit |-> TRUE]}

\* The state the constructor leaves: the options are merged, initialize()
\* has run up to its first await and its promise is kept.
Constructed(paths, callers_) ==
    /\ storagePath \in paths
    /\ \E o \in Options :
        /\ debug = o.debug
        /\ hasBeforeInit = o.beforeInit
        /\ hasAfterInit = o.afterInit
    /\ isInitialized = FALSE
    /\ initializationPromise = "pending"
    /\ initError = NoError
    /\ readKeys = {}
    /\ initPc = IF hasBeforeInit THEN "beforeInit" ELSE "getInfo"
    /\ fsDir \in BOOLEAN
    /\ fsFiles = EmptyDir
    /\ calls = [i \in Slots |-> IdleFrame]
    /\ invoked = 0
    /\ scenario = callers_
    /\ faults = 0
    /\ lastDone = NoSummary
    /\ debugSink = LogDebugInDebugMode({})
    /\ initErrorLogged = FALSE
    /\ nBeforeInit = IF hasBeforeInit THEN 1 ELSE 0
    /\ nAfterInit = 0
    /\ fsWhilePending = FALSE
    /\ readSince = {}
    /\ everSet = {}

\* No function is applied on its own.
Nothing == <<"nothing">>
Unapplied == arg = Nothing /\ ret = Nothing

\* No second instance is run through the operations of a first.
NoScript ==
    [calls |-> <<>>, dir |-> TRUE, fault |-> <<0, 0>>,
     successOk |-> TRUE, failOk |-> TRUE, hooksOk |-> TRUE]
NoRun == [done |-> FALSE, seen |-> <<>>]
Unreplayed == script = NoScript /\ firstRun = NoRun /\ observed = <<>>

\* An instance constructed without a storagePath, its callers awaiting
\* each call before the next.
Init == Constructed({DefaultStoragePath}, "sequence") /\ Unapplied /\ Unreplayed

\* The same instance, with callers that do not await each call before the next.
InitOverlap == Constructed({DefaultStoragePath}, "overlap") /\ Unapplied /\ Unreplayed

\* An instance constructed with a storagePath of the caller.
InitCustomPath == Constructed(StoragePaths, "sequence") /\ Unapplied /\ Unreplayed

\* ----------------------------------------------------------- initialize()

\* await this.options.beforeInit(): the hook returns or throws; it is
\* awaited outside the try block, so its error is not logged.
InitBeforeInit ==
    /\ NoneDone
    /\ initPc = "beforeInit"
    /\ \E ok \in BOOLEAN :
        IF ok
        THEN /\ initPc' = "getInfo"
             /\ UNCHANGED <<initializationPromise, initError>>
        ELSE /\ initPc' = "done"
             /\ initializationPromise' = "rejected"
             /\ initError' = HookError("beforeInit")
    /\ UNCHANGED <<applied, replay, options, isInitialized, readKeys, fileSystem, calls, callers, faults, lastDone, sinks, history>>

\* await FileSystem.getInfoAsync(storagePath), and what follows it up to
\* the next await.
InitGetInfo ==
    /\ NoneDone
    /\ initPc = "getInfo"
    /\ \E fault \in FaultChoices :
        /\ faults' = Faulted(fault)
        /\ LET r == GetInfo(storagePath, fault)
           IN  IF ~r.ok
               THEN \* catch: handleStorageError logs and rethrows
                    /\ initPc' = "done"
                    /\ initializationPromise' = "rejected"
                    /\ initError' = r.error
                    /\ initErrorLogged' = TRUE
                    /\ UNCHANGED <<isInitialized, debugSink, nAfterInit>>
               ELSE IF ~r.exists
               THEN \* return FileSystem.makeDirectoryAsync(...)
                    /\ initPc' = "makeDirectory"
                    /\ debugSink' = LogDebugInDebugMode(debugSink)
                    /\ UNCHANGED <<isInitialized, initializationPromise, initError,
                                   initErrorLogged, nAfterInit>>
               ELSE IF hasAfterInit
               THEN /\ initPc' = "afterInit"
                    /\ nAfterInit' = nAfterInit + 1
                    /\ debugSink' = LogDebugInDebugMode(debugSink)
                    /\ UNCHANGED <<isInitialized, initializationPromise, initError, initErrorLogged>>
               ELSE /\ initPc' = "done"
                    /\ isInitialized' = TRUE
                    /\ initializationPromise' = "resolved"
                    /\ debugSink' = LogDebugInDebugMode(debugSink)
                    /\ UNCHANGED <<initError, initErrorLogged, nAfterInit>>
    /\ UNCHANGED <<applied, replay, options, readKeys, fileSystem, calls, callers, lastDone,
                   nBeforeInit, fsWhilePending, history>>

\* An initialize() that starts makeDirectoryAsync and returns without its
\* promise: the initialization promise resolves while the call is running.
InitMakeDirectoryDetached ==
    /\ NoneDone
    /\ initPc = "makeDirectory"
    /\ initializationPromise' = "resolved"
    /\ initPc' = "done"
    /\ UNCHANGED <<applied, replay, options, isInitialized, initError, readKeys, fileSystem, calls,
                   callers, faults, lastDone, sinks, history>>

\* The promise of makeDirectoryAsync is returned, not awaited: the
\* initialization promise settles as it does, nothing after the return
\* runs, and its failure does not reach the catch block.
InitMakeDirectory ==
    /\ NoneDone
    /\ initPc = "makeDirectory"
    /\ \E fault \in FaultChoices :
        /\ faults' = Faulted(fault)
        /\ LET r == MakeDir(fault)
           IN  /\ fsDir' = r.dir
               /\ initializationPromise' = IF r.ok THEN "resolved" ELSE "rejected"
               /\ initError' = r.error
    /\ initPc' = "done"
    /\ UNCHANGED <<applied, replay, options, isInitialized, readKeys, fsFiles, calls, callers, lastDone, sinks, history>>

\* await this.options.afterInit(): inside the try block.
InitAfterInit ==
    /\ NoneDone
    /\ initPc = "afterInit"
    /\ \E ok \in BOOLEAN :
        IF ok
        THEN /\ isInitialized' = TRUE
             /\ initializationPromise' = "resolved"
             /\ debugSink' = LogDebugInDebugMode(debugSink)
             /\ UNCHANGED <<initError, initErrorLogged>>
        ELSE /\ initializationPromise' = "rejected"
             /\ initError' = HookError("afterInit")
             /\ initErrorLogged' = TRUE
             /\ UNCHANGED <<isInitialized, debugSink>>
    /\ initPc' = "done"
    /\ UNCHANGED <<applied, replay, options, readKeys, fileSystem, calls, callers, faults, lastDone,
                   nBeforeInit, nAfterInit, fsWhilePending, history>>

\* --------------------------------------------------- waitForInitialization

InitializationPromiseNotFound ==
    [kind |-> "init", call |-> "waitForInitialization",
     code |-> "INITIALIZATION_PROMISE_NOT_FOUND", prefix |-> ""]

\* A waitForInitialization that does not await the pending promise.
WaitForInitializationNoAwait ==
    IF initializationPromise = "rejected" THEN "failed" ELSE "ready"

\* A waitForInitialization that swallows the rejection of the promise.
WaitForInitializationSwallow ==
    IF initializationPromise = "pending" THEN "suspended" ELSE "ready"

\* A waitForInitialization of an instance whose constructor has not kept
\* the promise of initialize().
WaitForInitializationWithoutPromise ==
    IF isInitialized THEN "ready" ELSE "notFound"

\* A waitForInitialization that waits for the flag isInitialized and not
\* for the promise to resolve.
WaitForInitializationForFlag ==
    IF isInitialized THEN "ready"
    ELSE IF initializationPromise = "null" THEN "notFound"
    ELSE IF initializationPromise = "rejected" THEN "failed"
    ELSE "suspended"

\* waitForInitialization: returns at once when isInitialized, throws when
\* there is no promise, and otherwise awaits the promise.
WaitForInitialization ==
    IF isInitialized THEN "ready"
    ELSE IF initializationPromise = "null" THEN "notFound"
    ELSE IF initializationPromise = "pending" THEN "suspended"
    ELSE IF initializationPromise = "resolved" THEN "ready"
    ELSE "failed"

\* -------------------------------------------------------------- operations

\* Where an operation is suspended once it is past waitForInitialization.
FirstPc(op) ==
    CASE op = "getItem" -> "read"
      [] op = "setItem" -> "write"
      [] op = "removeItem" -> "delete"
      [] op = "clear" -> "clearDelete"
      [] op = "getAllKeys" -> "list"
      [] op = "itemExists" -> "info"
      [] op = "hasStoredItems" -> "hasList"
      [] op = "logStoredItems" -> "logHas"

\* An operation touches the file system: was initialize() still pending?
Touched == fsWhilePending \/ initializationPromise = "pending"

\* A caller calls an operation; `await this.waitForInitialization()` is its
\* first statement.
Invoke(i) ==
    /\ NoneDone
    /\ invoked < (IF scenario = "sequence" THEN MaxOps ELSE MaxOverlapOps)
    /\ scenario = "sequence" => \A j \in Slots : calls[j].pc = "idle"
    /\ calls[i].pc = "idle"
    /\ \A j \in Slots : j < i => calls[j].pc # "idle"
    /\ \E c \in Calls :
        LET alone == \A j \in Slots : calls[j].pc = "idle"
        IN /\ calls' = [j \in Slots |->
                IF j = i
                THEN [IdleFrame EXCEPT !.op = c.op, !.key = c.key, !.val = c.val,
                                       !.onSuccess = c.onSuccess, !.onFail = c.onFail,
                                       !.pc = "wait", !.solo = alone,
                                       !.early = (initializationPromise = "pending"),
                                       !.prev = IF alone THEN lastDone ELSE NoSummary]
                ELSE IF calls[j].pc = "idle" THEN calls[j]
                ELSE [calls[j] EXCEPT !.solo = FALSE]]
           /\ everSet' = IF c.op = "setItem" THEN everSet \cup {c.key} ELSE everSet
    /\ invoked' = invoked + 1
    /\ UNCHANGED <<applied, replay, options, instance, fileSystem, scenario, faults, lastDone, sinks, readSince>>

\* A clear that leaves readKeys as it is.
KeptReadKeys == readKeys

\* clear, this.readKeys.clear().
ClearedReadKeys == {}

\* The await of waitForInitialization ends: the operation fails with the
\* failure of the initialization, or runs on to its first file-system call.
\* getItem notes whether the key is read for the first time and adds it to
\* readKeys; clear empties readKeys.
Ready(i) ==
    /\ NoneDone
    /\ calls[i].pc = "wait"
    /\ WaitForInitialization # "suspended"
    /\ LET f == calls[i]
           w == WaitForInitialization
       IN  IF w = "ready"
           THEN /\ calls' = [calls EXCEPT ![i] =
                        [f EXCEPT !.pc = FirstPc(f.op),
                                  !.first = (f.op = "getItem" /\ f.key \notin readKeys),
                                  !.readBefore = (f.op = "getItem" /\ f.key \in readSince),
                                  !.stored = (f.op \in KeyOps
                                              /\ PathExists(PathForKey(storagePath, f.key)))]]
                /\ readKeys' = CASE f.op = "getItem" -> readKeys \cup {f.key}
                                 [] f.op = "clear" -> ClearedReadKeys
                                 [] OTHER -> readKeys
                /\ readSince' = CASE f.op = "getItem" -> readSince \cup {f.key}
                                  [] f.op = "clear" -> {}
                                  [] OTHER -> readSince
                /\ debugSink' = IF f.op \in {"clear", "logStoredItems"}
                                THEN LogDebugInDebugMode(debugSink) ELSE debugSink
           ELSE /\ calls' = [calls EXCEPT ![i] =
                        Reject(f, IF w = "failed" THEN initError
                                  ELSE InitializationPromiseNotFound)]
                /\ UNCHANGED <<readKeys, readSince, debugSink>>
    /\ UNCHANGED <<applied, replay, options, isInitialized, initializationPromise, initError, initPc,
                   fileSystem, callers, faults, lastDone,
                   initErrorLogged, nBeforeInit, nAfterInit, fsWhilePending, everSet>>

\* A getItem that returns the content as the debug message shows it.
GetItemContentAsLogged(content) == IF debug THEN "p" \o content ELSE content

\* What getItem returns for the content it has read.
GetItemContent(content) == content

\* getItem, await FileSystem.readAsStringAsync(pathForKey(key)).
GetItemRead(i) ==
    /\ NoneDone
    /\ calls[i].pc = "read"
    /\ \E fault \in FaultChoices :
        /\ faults' = Faulted(fault)
        /\ LET f == calls[i]
               r == ReadFile(PathForKey(storagePath, f.key), fault)
               g == Issued(f, r, fault)
           IN  IF r.ok
               THEN /\ calls' = [calls EXCEPT ![i] = Succeed(g, StrResult(GetItemContent(r.content)))]
                    /\ debugSink' = LogDebugInDebugMode(debugSink)
               ELSE /\ calls' = [calls EXCEPT ![i] = [g EXCEPT !.err = r.error, !.pc = "exists"]]
                    /\ UNCHANGED debugSink
    /\ fsWhilePending' = Touched
    /\ UNCHANGED <<applied, replay, options, instance, fileSystem, callers, lastDone,
                   initErrorLogged, nBeforeInit, nAfterInit, history>>

\* An itemExists that answers true whenever getInfoAsync has answered.
ItemExistsAnswered(r) == r.ok

\* What itemExists returns: exists, and false when getInfoAsync failed.
ItemExistsResult(r) == r.ok /\ r.exists

\* A getItem that answers every read of a missing item with the empty string.
IsMiss(isKeyReadForTheFirstTime, isItemExistent) == ~isItemExistent

\* getItem answers a failed read with the empty string in this case only.
IsBenignMiss(isKeyReadForTheFirstTime, isItemExistent) ==
    isKeyReadForTheFirstTime /\ ~isItemExistent

\* getItem, the catch block: await this.itemExists(key), whose own failure
\* counts as "does not exist"; then the empty string or handleStorageError.
GetItemExists(i) ==
    /\ NoneDone
    /\ calls[i].pc = "exists"
    /\ \E fault \in FaultChoices :
        /\ faults' = Faulted(fault)
        /\ LET f == calls[i]
               r == GetInfo(PathForKey(storagePath, f.key), fault)
               g == Issued(f, r, fault)
               isItemExistent == ItemExistsResult(r)
           IN  IF IsBenignMiss(f.first, isItemExistent)
               THEN /\ calls' = [calls EXCEPT ![i] = Resolve(g, StrResult(""))]
                    /\ debugSink' = LogDebugInDebugMode(debugSink)
               ELSE /\ calls' = [calls EXCEPT ![i] =
                           HandleStorageError(g, IF f.first THEN "getItem:firstRead" ELSE "getItem",
                                              f.err)]
                    /\ UNCHANGED debugSink
    /\ fsWhilePending' = Touched
    /\ UNCHANGED <<applied, replay, options, instance, fileSystem, callers, lastDone,
                   initErrorLogged, nBeforeInit, nAfterInit, history>>

\* A setItem that writes the JSON text of the value, quotes included.
SetItemContentQuoted(value) == "q" \o value

\* What setItem hands to writeAsStringAsync.
SetItemContent(value) == value

\* setItem, await FileSystem.writeAsStringAsync(pathForKey(key), value).
SetItemWrite(i) ==
    /\ NoneDone
    /\ calls[i].pc = "write"
    /\ \E fault \in FaultChoices :
        /\ faults' = Faulted(fault)
        /\ LET f == calls[i]
               r == WriteFile(PathForKey(storagePath, f.key), SetItemContent(f.val), fault)
               g == Issued(f, r, fault)
           IN  /\ fsFiles' = r.files
               /\ IF r.ok
                  THEN /\ calls' = [calls EXCEPT ![i] = Succeed(g, VoidResult)]
                       /\ debugSink' = LogDebugInDebugMode(debugSink)
                  ELSE /\ calls' = [calls EXCEPT ![i] = HandleStorageError(g, "setItem", r.error)]
                       /\ UNCHANGED debugSink
    /\ fsWhilePending' = Touched
    /\ UNCHANGED <<applied, replay, options, instance, fsDir, callers, lastDone,
                   initErrorLogged, nBeforeInit, nAfterInit, history>>

\* removeItem, await FileSystem.deleteAsync(pathForKey(key), {idempotent: true}).
\* A removeItem whose deleteAsync is not idempotent.
RemoveItemStrict == FALSE

\* The idempotent option removeItem passes to deleteAsync.
RemoveItemIdempotent == TRUE

RemoveItemDelete(i) ==
    /\ NoneDone
    /\ calls[i].pc = "delete"
    /\ \E fault \in FaultChoices :
        /\ faults' = Faulted(fault)
        /\ LET f == calls[i]
               r == DeleteFile(PathForKey(storagePath, f.key), RemoveItemIdempotent, fault)
               g == Issued(f, r, fault)
           IN  /\ fsFiles' = r.files
               /\ IF r.ok
                  THEN /\ calls' = [calls EXCEPT ![i] = Succeed(g, VoidResult)]
                       /\ debugSink' = LogDebugInDebugMode(debugSink)
                  ELSE /\ calls' = [calls EXCEPT ![i] = HandleStorageError(g, "removeItem", r.error)]
                       /\ UNCHANGED debugSink
    /\ fsWhilePending' = Touched
    /\ UNCHANGED <<applied, replay, options, instance, fsDir, callers, lastDone,
                   initErrorLogged, nBeforeInit, nAfterInit, history>>

\* A clear that only recreates the directory, deleting nothing.
ClearWithoutDelete(i) ==
    /\ NoneDone
    /\ calls[i].pc = "clearDelete"
    /\ calls' = [calls EXCEPT ![i].pc = "clearMakeDir"]
    /\ UNCHANGED <<applied, replay, options, instance, fileSystem, callers, faults, lastDone, sinks, history>>

\* clear, await FileSystem.deleteAsync(storagePath, {idempotent: true}).
ClearDelete(i) ==
    /\ NoneDone
    /\ calls[i].pc = "clearDelete"
    /\ \E fault \in FaultChoices :
        /\ faults' = Faulted(fault)
        /\ LET f == calls[i]
               r == DeleteDir(fault)
               g == Issued(f, r, fault)
           IN  /\ fsDir' = r.dir
               /\ fsFiles' = r.files
               /\ calls' = [calls EXCEPT ![i] =
                       IF r.ok THEN [g EXCEPT !.pc = "clearMakeDir"]
                       ELSE HandleStorageError(g, "clear", r.error)]
    /\ fsWhilePending' = Touched
    /\ UNCHANGED <<applied, replay, options, instance, callers, lastDone,
                   debugSink, initErrorLogged, nBeforeInit, nAfterInit, history>>

\* clear, await FileSystem.makeDirectoryAsync(storagePath, {intermediates: true}).
ClearMakeDir(i) ==
    /\ NoneDone
    /\ calls[i].pc = "clearMakeDir"
    /\ \E fault \in FaultChoices :
        /\ faults' = Faulted(fault)
        /\ LET f == calls[i]
               r == MakeDir(fault)
               g == Issued(f, r, fault)
           IN  /\ fsDir' = r.dir
               /\ IF r.ok
                  THEN /\ calls' = [calls EXCEPT ![i] = Succeed(g, VoidResult)]
                       /\ debugSink' = LogDebugInDebugMode(debugSink)
                  ELSE /\ calls' = [calls EXCEPT ![i] = HandleStorageError(g, "clear", r.error)]
                       /\ UNCHANGED debugSink
    /\ fsWhilePending' = Touched
    /\ UNCHANGED <<applied, replay, options, instance, fsFiles, callers, lastDone,
                   initErrorLogged, nBeforeInit, nAfterInit, history>>

\* fileNames.map((fileName) => decodeURIComponent(fileName))
DecodedNames(names) == [n \in 1..Len(names) |-> DecodeURIComponent(names[n]).val]
DecodesAll(names) == \A n \in 1..Len(names) : DecodeURIComponent(names[n]).ok

\* getAllKeys, await FileSystem.readDirectoryAsync(storagePath); a name
\* that does not decode throws inside the try block.
GetAllKeysList(i) ==
    /\ NoneDone
    /\ calls[i].pc = "list"
    /\ \E fault \in FaultChoices :
        /\ faults' = Faulted(fault)
        /\ \E r \in ReadDirectory(fault) :
               LET f == calls[i]
                   g == Issued(f, r, fault)
               IN  IF r.ok /\ DecodesAll(r.names)
                   THEN /\ calls' = [calls EXCEPT ![i] = Succeed(g, SeqResult(DecodedNames(r.names)))]
                        /\ debugSink' = LogDebugInDebugMode(debugSink)
                   ELSE /\ calls' = [calls EXCEPT ![i] =
                               HandleStorageError(g, "getAllKeys",
                                                  IF r.ok THEN UriError ELSE r.error)]
                        /\ UNCHANGED debugSink
    /\ fsWhilePending' = Touched
    /\ UNCHANGED <<applied, replay, options, instance, fileSystem, callers, lastDone,
                   initErrorLogged, nBeforeInit, nAfterInit, history>>

\* itemExists, await FileSystem.getInfoAsync(pathForKey(key)): a failure is false.
ItemExistsInfo(i) ==
    /\ NoneDone
    /\ calls[i].pc = "info"
    /\ \E fault \in FaultChoices :
        /\ faults' = Faulted(fault)
        /\ LET f == calls[i]
               r == GetInfo(PathForKey(storagePath, f.key), fault)
               g == Issued(f, r, fault)
           IN  calls' = [calls EXCEPT ![i] = Resolve(g, BoolResult(ItemExistsResult(r)))]
    /\ fsWhilePending' = Touched
    /\ UNCHANGED <<applied, replay, options, instance, fileSystem, callers, lastDone,
                   debugSink, initErrorLogged, nBeforeInit, nAfterInit, history>>

\* A hasStoredItems that starts from true, so that a failed listing is "true".
HasItemsUnlessListed(r) == ~r.ok \/ Len(r.names) > 0

\* hasStoredItems after its listing: fileNames.length > 0, and false when
\* the listing failed.
HasItems(r) == r.ok /\ Len(r.names) > 0

\* hasStoredItems, await FileSystem.readDirectoryAsync(storagePath): a
\* failure is handed to handleStorageError, which logs it, and whose
\* promise nobody awaits; the finally block returns.
HasStoredItemsList(i) ==
    /\ NoneDone
    /\ calls[i].pc = "hasList"
    /\ \E fault \in FaultChoices :
        /\ faults' = Faulted(fault)
        /\ \E r \in ReadDirectory(fault) :
               LET f == calls[i]
                   g == Issued(f, r, fault)
                   h == IF r.ok THEN g ELSE [g EXCEPT !.nErrLog = @ + 1, !.err = r.error]
               IN  calls' = [calls EXCEPT ![i] = Resolve(h, BoolResult(HasItems(r)))]
    /\ debugSink' = LogDebugInDebugMode(debugSink)
    /\ fsWhilePending' = Touched
    /\ UNCHANGED <<applied, replay, options, instance, fileSystem, callers, lastDone,
                   initErrorLogged, nBeforeInit, nAfterInit, history>>

\* logStoredItems, `await this.hasStoredItems()`: with nothing stored the
\* message goes to logDebugMessage, whatever the debug mode.
LogStoredItemsHas(i) ==
    /\ NoneDone
    /\ calls[i].pc = "logHas"
    /\ \E fault \in FaultChoices :
        /\ faults' = Faulted(fault)
        /\ \E r \in ReadDirectory(fault) :
               LET f == calls[i]
                   g == Issued(f, r, fault)
                   h == IF r.ok THEN g ELSE [g EXCEPT !.nErrLog = @ + 1, !.err = r.error]
               IN  IF HasItems(r)
                   THEN /\ calls' = [calls EXCEPT ![i] = [h EXCEPT !.pc = "logKeys"]]
                        /\ debugSink' = LogDebugInDebugMode(debugSink)
                   ELSE /\ calls' = [calls EXCEPT ![i] = Resolve(h, VoidResult)]
                        /\ debugSink' = LogDebug(LogDebugInDebugMode(debugSink))
    /\ fsWhilePending' = Touched
    /\ UNCHANGED <<applied, replay, options, instance, fileSystem, callers, lastDone,
                   initErrorLogged, nBeforeInit, nAfterInit, history>>

\* logStoredItems, `await this.getAllKeys()`: its failure is logged by
\* getAllKeys and rejects logStoredItems; otherwise one read per key is
\* issued, all at once.
LogStoredItemsKeys(i) ==
    /\ NoneDone
    /\ calls[i].pc = "logKeys"
    /\ \E fault \in FaultChoices :
        /\ faults' = Faulted(fault)
        /\ \E r \in ReadDirectory(fault) :
               LET f == calls[i]
                   g == Issued(f, r, fault)
               IN  IF r.ok /\ DecodesAll(r.names)
                   THEN /\ calls' = [calls EXCEPT ![i] =
                               IF r.names = <<>> THEN Resolve(g, VoidResult)
                               ELSE [g EXCEPT !.pc = "logReads",
                                              !.names = DecodedNames(r.names),
                                              !.todo = 1..Len(r.names)]]
                        /\ debugSink' = LogDebugInDebugMode(debugSink)
                   ELSE /\ calls' = [calls EXCEPT ![i] =
                               HandleStorageError(g, "getAllKeys",
                                                  IF r.ok THEN UriError ELSE r.error)]
                        /\ UNCHANGED debugSink
    /\ fsWhilePending' = Touched
    /\ UNCHANGED <<applied, replay, options, instance, fileSystem, callers, lastDone,
                   initErrorLogged, nBeforeInit, nAfterInit, history>>

\* logStoredItems, one of the reads under Promise.all ends: its content
\* goes to logDebugMessage, or its failure to handleStorageError, which
\* logs it and throws; the first such failure rejects Promise.all and
\* with it logStoredItems, while the other reads go on.
LogStoredItemsRead(i) ==
    /\ NoneDone
    /\ calls[i].pc = "logReads"
    /\ \E n \in calls[i].todo :
        \E fault \in FaultChoices :
            /\ faults' = Faulted(fault)
            /\ LET f == calls[i]
                   r == ReadFile(PathForKey(storagePath, f.names[n]), fault)
                   g == [Issued(f, r, fault) EXCEPT !.todo = @ \ {n}]
                   h == IF r.ok THEN g
                        ELSE [g EXCEPT !.nErrLog = @ + 1,
                                       !.status = IF @ = "none" THEN "rejected" ELSE @,
                                       !.error = IF g.status = "none" THEN r.error ELSE @]
                   last == h.todo = {}
               IN  /\ calls' = [calls EXCEPT ![i] =
                           IF ~last THEN h
                           ELSE IF h.status = "rejected" THEN [h EXCEPT !.pc = "done"]
                           ELSE Resolve(h, VoidResult)]
                   /\ debugSink' =
                           LET logged == IF r.ok THEN LogDebug(debugSink) ELSE debugSink
                           IN  IF last /\ h.status # "rejected"
                               THEN LogDebugInDebugMode(logged) ELSE logged
    /\ fsWhilePending' = Touched
    /\ UNCHANGED <<applied, replay, options, instance, fileSystem, callers, lastDone,
                   initErrorLogged, nBeforeInit, nAfterInit, history>>

\* `await onSuccess(...)` ends.  The callback is awaited inside the try
\* block: when it throws, the catch block of the operation runs.
OnSuccessSettles(i) ==
    /\ NoneDone
    /\ calls[i].pc = "onSuccess"
    /\ \E ok \in BOOLEAN :
        LET f == calls[i]
            g == [f EXCEPT !.successThrew = TRUE]
        IN  calls' = [calls EXCEPT ![i] =
                IF ok THEN Resolve(f, f.successArg)
                ELSE IF f.op = "getItem"
                THEN [g EXCEPT !.err = CallbackError("onSuccess"), !.pc = "exists"]
                ELSE HandleStorageError(g, f.op, CallbackError("onSuccess"))]
    /\ UNCHANGED <<applied, replay, options, instance, fileSystem, callers, faults, lastDone, sinks, history>>

\* handleStorageError, `await onFail(...)` ends: the original error is
\* thrown, unless onFail itself threw.
OnFailSettles(i) ==
    /\ NoneDone
    /\ calls[i].pc = "onFail"
    /\ \E ok \in BOOLEAN :
        LET f == calls[i]
        IN  calls' = [calls EXCEPT ![i] =
                IF ok THEN Reject(f, Rethrown(f.err, f.failArg))
                ELSE Reject([f EXCEPT !.failThrew = TRUE], CallbackError("onFail"))]
    /\ UNCHANGED <<applied, replay, options, instance, fileSystem, callers, faults, lastDone, sinks, history>>

\* The caller has the outcome of the call; its frame is gone.
Return(i) ==
    /\ calls[i].pc = "done"
    /\ lastDone' = IF calls[i].solo THEN Summary(calls[i]) ELSE NoSummary
    /\ calls' = [calls EXCEPT ![i] = IdleFrame]
    /\ UNCHANGED <<applied, replay, options, instance, fileSystem, callers, faults, sinks, history>>

\* ------------------------------------------------------------------- Spec

Next ==
    \/ InitBeforeInit
    \/ InitGetInfo
    \/ InitMakeDirectory
    \/ InitAfterInit
    \/ \E i \in Slots :
        \/ Invoke(i)
        \/ Ready(i)
        \/ GetItemRead(i)
        \/ GetItemExists(i)
        \/ SetItemWrite(i)
        \/ RemoveItemDelete(i)
        \/ ClearDelete(i)
        \/ ClearMakeDir(i)
        \/ GetAllKeysList(i)
        \/ ItemExistsInfo(i)
        \/ HasStoredItemsList(i)
        \/ LogStoredItemsHas(i)
        \/ LogStoredItemsKeys(i)
        \/ LogStoredItemsRead(i)
        \/ OnSuccessSettles(i)
        \/ OnFailSettles(i)
        \/ Return(i)

Spec == Init /\ [][Next]_vars

SpecOverlap == InitOverlap /\ [][Next]_vars

SpecCustomPath == InitCustomPath /\ [][Next]_vars

\* ------------------------------------------------- pathForKey on its own

\* The code units of the keys pathForKey is applied to.
KeyChars == {"a", "k", "Z", "5", ".", "-", "_", ":", "/", " ", "U+017F", "U+212A", "U+D83D"}
KeySamples == UNION {[1..n -> KeyChars] : n \in 0..MaxKeyLen}

\* An instance, and a key for its pathForKey.
InitPathForKey ==
    /\ Constructed(StoragePaths, "sequence")
    /\ ~debug /\ ~hasBeforeInit /\ fsDir
    /\ arg \in KeySamples
    /\ ret = Nothing
    /\ Unreplayed

\* this.pathForKey(key)
ApplyPathForKey ==
    /\ ret = Nothing
    /\ ret' = PathForKey(storagePath, arg)
    /\ UNCHANGED <<arg, replay, options, instance, fileSystem, calls, callers, faults, lastDone,
                   sinks, history>>

NextPathForKey == ApplyPathForKey

SpecPathForKey == InitPathForKey /\ [][NextPathForKey]_vars

\* ---------------------------------------------- deepParseJson on its own

\* JavaScript values, each a pair of its type and what it holds.  A string
\* holds its text: PlainText(name), a text that is not JSON, or
\* JsonText(v), the JSON text of the value v.  An object holds the
\* sequence of its entries, each a pair of key and value.
JsNumber(n) == <<"number", n>>
JsBoolean(b) == <<"boolean", b>>
JsNull == <<"null", "null">>
JsString(text) == <<"string", text>>
JsArray(elements) == <<"array", elements>>
JsObject(entries) == <<"object", entries>>
PlainText(name) == <<"plain", name>>
JsonText(v) == <<"json", v>>

TypeOf(x) == x[1]
Held(x) == x[2]

\* JSON.stringify(value)
JsonStringify(value) == JsonText(value)

\* ToString of a value that is not a string, as JSON.parse applies it to
\* its argument: a number, a boolean and null give their JSON text, an
\* object gives "[object Object]", an array gives the ToString of its
\* elements joined by commas, where null gives the empty text.
RECURSIVE JsToString(_)
JsToString(x) ==
    CASE TypeOf(x) = "string" -> Held(x)
      [] TypeOf(x) \in {"number", "boolean", "null"} -> JsonText(x)
      [] TypeOf(x) = "object" -> PlainText("[object Object]")
      [] TypeOf(x) = "array" ->
            IF Len(Held(x)) = 0 THEN PlainText("")
            ELSE IF Len(Held(x)) > 1 THEN PlainText("joined by commas")
            ELSE IF TypeOf(Held(x)[1]) = "null" THEN PlainText("")
            ELSE JsToString(Held(x)[1])

\* JSON.parse(x): the value, or a SyntaxError.
JsonParse(x) ==
    LET text == JsToString(x)
    IN  IF text[1] = "json" THEN [ok |-> TRUE, val |-> text[2]]
        ELSE [ok |-> FALSE, val |-> JsNull]

\* isNumericString: !Number.isNaN(Number(str)); the empty text is 0.
IsNumericString(text) ==
    \/ text = PlainText("")
    \/ text[1] = "json" /\ TypeOf(text[2]) = "number"

\* isNumericJsonValue
IsNumericJsonValue(value) == TypeOf(value) = "string" /\ IsNumericString(Held(value))

\* convertToString
ConvertToString(value) ==
    IF TypeOf(value) = "string" THEN value ELSE JsString(JsonStringify(value))

\* isJsonObject
IsJsonObject(value) == TypeOf(value) = "object"

\* deepParseJson(jsonString): parsedJson.map(deepParseJson) hands each
\* element to deepParseJson as it is, Object.entries(...).map each value
\* through convertToString; what JSON.parse throws is caught and the
\* argument returned.
RECURSIVE DeepParseJson(_)
DeepParseJson(jsonString) ==
    LET parsed == JsonParse(jsonString)
        parsedJson == parsed.val
    IN  IF ~parsed.ok THEN jsonString
        ELSE IF IsNumericJsonValue(parsedJson) THEN parsedJson
        ELSE IF TypeOf(parsedJson) = "array"
        THEN JsArray([n \in 1..Len(Held(parsedJson)) |->
                        DeepParseJson(Held(parsedJson)[n])])
        ELSE IF IsJsonObject(parsedJson)
        THEN JsObject([n \in 1..Len(Held(parsedJson)) |->
                        <<Held(parsedJson)[n][1],
                          DeepParseJson(ConvertToString(Held(parsedJson)[n][2]))>>])
        ELSE parsedJson

\* The values whose JSON texts deepParseJson is applied to: scalars and
\* strings, then level by level arrays, objects and the strings that hold
\* the JSON text of an array or an object.
JsonScalars ==
    {JsNumber(1), JsBoolean(TRUE), JsNull,
     JsString(PlainText("abc")), JsString(JsonText(JsNumber(1)))}
ArraysOf(S) == {JsArray(<<v>>) : v \in S}
ObjectsOf(S) == {JsObject(<<<<"a", v>>>>) : v \in S}
EncodedOf(S) == {JsString(JsonStringify(v)) : v \in S}
JsonPairs == {JsArray(<<v, JsNumber(1)>>) : v \in JsonScalars}
RECURSIVE JsonValues(_)
JsonValues(depth) ==
    IF depth = 0 THEN JsonScalars
    ELSE LET S == JsonValues(depth - 1)
             T == ArraysOf(S) \cup ObjectsOf(S)
         IN  S \cup T \cup EncodedOf(T) \cup {JsArray(<<>>), JsObject(<<>>)} \cup JsonPairs

\* The strings deepParseJson is applied to: JSON texts, and texts that are
\* not JSON.
JsonSamples ==
    {JsString(JsonStringify(v)) : v \in JsonValues(MaxJsonDepth)}
        \cup {JsString(PlainText("abc")), JsString(PlainText(""))}

\* An instance, and a string for deepParseJson.
InitDeepParseJson ==
    /\ Constructed({DefaultStoragePath}, "sequence")
    /\ ~debug /\ ~hasBeforeInit /\ fsDir
    /\ arg \in JsonSamples
    /\ ret = Nothing
    /\ Unreplayed

\* deepParseJson(jsonString)
ApplyDeepParseJson ==
    /\ ret = Nothing
    /\ ret' = DeepParseJson(arg)
    /\ UNCHANGED <<arg, replay, options, instance, fileSystem, calls, callers, faults, lastDone,
                   sinks, history>>

NextDeepParseJson == ApplyDeepParseJson

SpecDeepParseJson == InitDeepParseJson /\ [][NextDeepParseJson]_vars

\* ------------------------------------- two instances, the same operations

\* An instance is run through a script: the operations its callers invoke,
\* one after the other, whether the storage directory is there at first,
\* which call of the file system fails for a reason of the device (the k-th
\* call of the m-th operation, or of initialize() for m = 0; none for
\* <<0, 0>>), and whether onSuccess, onFail and the hooks return or throw.
\* Then a second instance, which differs from the first in options.debug
\* only, is run through the same script on a file system in the same state.
\* The operations are those of one key, with callbacks where they take them.
ReplayKey == <<"a", ":", "b">>
ReplayCalls ==
    {c \in Calls : /\ c.key \in {NoKey, ReplayKey}
                   /\ c.op = "setItem" => c.val = "x"
                   /\ c.op \in CallbackOps => c.onSuccess}
FaultPlaces ==
    {<<0, 0>>} \cup ({0} \X {1, 2}) \cup ((1..MaxReplayOps) \X {1, 2, 3})
Scripts ==
    [calls : [1..MaxReplayOps -> ReplayCalls], dir : BOOLEAN, fault : FaultPlaces,
     successOk : BOOLEAN, failOk : BOOLEAN, hooksOk : BOOLEAN]

\* The calls of the file system an operation issues at most.
CallsOf(op) ==
    CASE op \in {"getItem", "clear"} -> 2
      [] op = "logStoredItems" -> 3
      [] OTHER -> 1

\* The script has nothing that cannot happen: the call that fails is one
\* that can be issued, and a callback or a hook that throws is supplied.
Feasible(sc) ==
    /\ sc.fault = <<0, 2>> => ~sc.dir
    /\ sc.fault[1] > 0 => sc.fault[2] <= CallsOf(sc.calls[sc.fault[1]].op)
    /\ ~sc.successOk => \E n \in 1..MaxReplayOps : sc.calls[n].onSuccess
    /\ ~sc.failOk => \E n \in 1..MaxReplayOps : sc.calls[n].onFail
    /\ ~sc.hooksOk => hasBeforeInit

\* The first instance is constructed, with debug off; the script is
\* whatever it is.
InitReplay ==
    /\ Constructed({DefaultStoragePath}, "sequence")
    /\ ~debug
    /\ Unapplied
    /\ script \in Scripts
    /\ Feasible(script)
    /\ fsDir = script.dir
    /\ firstRun = NoRun
    /\ observed = <<>>

\* The arguments of the call of a frame.
CallOf(f) ==
    [op |-> f.op, key |-> f.key, val |-> f.val, onSuccess |-> f.onSuccess, onFail |-> f.onFail]

\* The step is the one the script has at this place: the call that is
\* invoked, once the initialization has settled, the call of the file
\* system that fails, what a callback or a hook does.
FollowsScript ==
    /\ faults' # faults <=>
        \/ /\ script.fault[1] = 0
           /\ \/ initPc = "getInfo" /\ initPc' # "getInfo" /\ script.fault[2] = 1
              \/ initPc = "makeDirectory" /\ initPc' # "makeDirectory" /\ script.fault[2] = 2
        \/ \E i \in Slots :
            /\ calls'[i].fsCalls = calls[i].fsCalls + 1
            /\ script.fault = <<invoked, calls'[i].fsCalls>>
    /\ \A i \in Slots :
        /\ (calls[i].pc = "onSuccess" /\ calls'[i].pc # "onSuccess")
            => (calls'[i].successThrew <=> ~script.successOk)
        /\ (calls[i].pc = "onFail" /\ calls'[i].pc # "onFail")
            => (calls'[i].failThrew <=> ~script.failOk)
        /\ (calls[i].pc = "idle" /\ calls'[i].pc = "wait")
            => IF invoked' <= Len(script.calls) /\ initializationPromise # "pending"
               THEN CallOf(calls'[i]) = script.calls[invoked'] ELSE FALSE
    /\ (initPc = "beforeInit" /\ initPc' # "beforeInit")
        => (initPc' = "getInfo" <=> script.hooksOk)
    /\ (initPc = "afterInit" /\ initPc' # "afterInit")
        => (initializationPromise' = "resolved" <=> script.hooksOk)

\* What is seen of a call that has settled: its arguments, how it settled,
\* what its callbacks and the error sink were given, the calls of the file
\* system it issued and how the first that failed did so.
ObservedOf(f) ==
    [call |-> CallOf(f), status |-> f.status, result |-> f.result, error |-> f.error,
     nSuccess |-> f.nSuccess, successArg |-> f.successArg,
     nFail |-> f.nFail, failArg |-> f.failArg,
     nErrLog |-> f.nErrLog, fsCalls |-> f.fsCalls, fsError |-> f.fsError]

\* What is seen when the call in slot i returns: the call, the file
\* system, and how the initialization went.
Observation(i) ==
    [call |-> ObservedOf(calls[i]), dir |-> fsDir, files |-> fsFiles,
     initialization |-> <<initializationPromise, initError, initErrorLogged,
                          nBeforeInit, nAfterInit>>]

\* The caller has the outcome of the call, and it is noted.
ObserveReturn(i) ==
    /\ calls[i].pc = "done"
    /\ lastDone' = IF calls[i].solo THEN Summary(calls[i]) ELSE NoSummary
    /\ calls' = [calls EXCEPT ![i] = IdleFrame]
    /\ observed' = Append(observed, Observation(i))
    /\ UNCHANGED <<applied, script, firstRun, options, instance, fileSystem, callers, faults,
                   sinks, history>>

\* The first instance is through the script: the second is constructed,
\* with the other debug option, on a file system as the first found it.
ConstructSecond ==
    /\ ~firstRun.done
    /\ Len(observed) = Len(script.calls)
    /\ firstRun' = [done |-> TRUE, seen |-> observed]
    /\ observed' = <<>>
    /\ debug' = ~debug
    /\ isInitialized' = FALSE
    /\ initializationPromise' = "pending"
    /\ initError' = NoError
    /\ readKeys' = {}
    /\ initPc' = IF hasBeforeInit THEN "beforeInit" ELSE "getInfo"
    /\ fsDir' = script.dir
    /\ fsFiles' = EmptyDir
    /\ calls' = [i \in Slots |-> IdleFrame]
    /\ invoked' = 0
    /\ faults' = 0
    /\ lastDone' = NoSummary
    /\ debugSink' = LogDebugInDebugMode({})'
    /\ initErrorLogged' = FALSE
    /\ nBeforeInit' = IF hasBeforeInit THEN 1 ELSE 0
    /\ nAfterInit' = 0
    /\ fsWhilePending' = FALSE
    /\ readSince' = {}
    /\ everSet' = {}
    /\ UNCHANGED <<applied, script, storagePath, hasBeforeInit, hasAfterInit, scenario>>

NextReplay ==
    \/ InitBeforeInit /\ FollowsScript
    \/ InitGetInfo /\ FollowsScript
    \/ InitMakeDirectory /\ FollowsScript
    \/ InitAfterInit /\ FollowsScript
    \/ \E i \in Slots :
        \/ Invoke(i) /\ FollowsScript
        \/ Ready(i) /\ FollowsScript
        \/ GetItemRead(i) /\ FollowsScript
        \/ GetItemExists(i) /\ FollowsScript
        \/ SetItemWrite(i) /\ FollowsScript
        \/ RemoveItemDelete(i) /\ FollowsScript
        \/ ClearDelete(i) /\ FollowsScript
        \/ ClearMakeDir(i) /\ FollowsScript
        \/ GetAllKeysList(i) /\ FollowsScript
        \/ ItemExistsInfo(i) /\ FollowsScript
        \/ HasStoredItemsList(i) /\ FollowsScript
        \/ LogStoredItemsHas(i) /\ FollowsScript
        \/ LogStoredItemsKeys(i) /\ FollowsScript
        \/ LogStoredItemsRead(i) /\ FollowsScript
        \/ OnSuccessSettles(i) /\ FollowsScript
        \/ OnFailSettles(i) /\ FollowsScript
        \/ ObserveReturn(i)
    \/ ConstructSecond

SpecReplay == InitReplay /\ [][NextReplay]_vars

\* ------------------------------------------- every call comes to an end

\* The calls of the callers of the fair specification: every operation, the
\* keyed ones on one key, with the callbacks where the operation takes them.
FairKey == <<"c">>
FairCalls ==
    {c \in Calls : /\ c.key \in {NoKey, FairKey}
                   /\ c.val \in {NoValue, "x"}
                   /\ c.op \in CallbackOps => c.onSuccess}

\* The call that is invoked in this step is one of FairCalls.
CallsFairly ==
    \A i \in Slots :
        (calls[i].pc = "idle" /\ calls'[i].pc = "wait") => CallOf(calls'[i]) \in FairCalls

\* One step of initialize(): the continuation after a hook or a file-system
\* call that has completed.
InitializeStep ==
    \/ InitBeforeInit
    \/ InitGetInfo
    \/ InitMakeDirectory
    \/ InitAfterInit

\* One step of the call in slot i: the continuation after the await it is
\* suspended at, up to handing its outcome to the caller.
OperationStep(i) ==
    \/ Ready(i)
    \/ GetItemRead(i)
    \/ GetItemExists(i)
    \/ SetItemWrite(i)
    \/ RemoveItemDelete(i)
    \/ ClearDelete(i)
    \/ ClearMakeDir(i)
    \/ GetAllKeysList(i)
    \/ ItemExistsInfo(i)
    \/ HasStoredItemsList(i)
    \/ LogStoredItemsHas(i)
    \/ LogStoredItemsKeys(i)
    \/ LogStoredItemsRead(i)
    \/ OnSuccessSettles(i)
    \/ OnFailSettles(i)
    \/ Return(i)

\* The hooks and the file-system calls complete, with a result or with a
\* failure, and the event loop runs every continuation whose promise has
\* settled; when a caller calls is up to the caller.
Fairness ==
    /\ WF_vars(InitializeStep)
    /\ \A i \in Slots : WF_vars(OperationStep(i))

NextFair ==
    \/ InitializeStep
    \/ \E i \in Slots :
        \/ Invoke(i) /\ CallsFairly
        \/ OperationStep(i)

SpecFair == InitOverlap /\ [][NextFair]_vars /\ Fairness

\* ------------------------------------------------------------ properties
\* A call is inspected at the moment its promise has settled (pc = "done"),
\* through what the frame has recorded of it.

Settled(i) == calls[i].pc = "done"

\* C1: when setItem(k, v) has resolved and no other call came before a
\* following getItem(k), whose read meets no failure of the device and whose
\* onSuccess does not throw, that getItem resolves to exactly v.
C1_SetThenGetReturnsValue ==
    \A i \in Slots :
        LET f == calls[i]
        IN  (/\ Settled(i) /\ f.op = "getItem" /\ f.solo
             /\ f.prev.op = "setItem" /\ f.prev.key = f.key
             /\ ~f.fault /\ ~f.successThrew)
            => /\ f.status = "resolved"
               /\ f.result = StrResult(f.prev.val)
               /\ f.nFail = 0
               /\ f.onSuccess => f.successArg = StrResult(f.prev.val)

\* The round trip of the empty string, for a key that was read before it
\* was set and that shares its file name with no other key in use.
C1_Witness ==
    \E i \in Slots :
        LET f == calls[i]
        IN  /\ Settled(i) /\ f.op = "getItem" /\ f.solo
            /\ f.prev = [op |-> "setItem", key |-> f.key, val |-> ""]
            /\ f.key = <<"a", ":", "b">>
            /\ f.readBefore /\ faults = 0
            /\ f.status = "resolved" /\ f.result = StrResult("")

\* C2: no operation issues a file-system call while initialize() is still
\* pending: a call made before initialization settles stays suspended in
\* waitForInitialization.
C2_NoFileSystemCallWhilePending ==
    /\ ~fsWhilePending
    /\ \A i \in Slots :
        (Running(i) /\ calls[i].pc # "wait") => initializationPromise # "pending"
    /\ \A i \in Slots :
        (Settled(i) /\ initializationPromise = "pending") => calls[i].fsCalls = 0

\* Two calls made while initialize() was pending have both reached the
\* file system after it resolved: one has written its file, the other is
\* past its first call.
C2_Witness ==
    \E i, j \in Slots :
        LET f == calls[i]
            g == calls[j]
        IN  /\ i # j
            /\ Settled(i) /\ f.op = "setItem" /\ f.early
            /\ f.fsCalls = 1 /\ f.status = "resolved"
            /\ Running(j) /\ g.early /\ g.fsCalls = 1
            /\ hasBeforeInit /\ nAfterInit = 1

\* C3: once initialize() has failed the instance is never usable: every
\* call, made before or after the failure, rejects with the initialization
\* failure, issues no file-system call and does not invoke onSuccess.
C3_FailedInitializationRejectsAll ==
    initializationPromise = "rejected" =>
        /\ ~isInitialized
        /\ initPc = "done"
        /\ \A i \in Slots :
            LET f == calls[i]
            IN  /\ f.pc \in {"idle", "wait", "done"}
                /\ Settled(i) => /\ f.status = "rejected"
                                 /\ f.error = initError
                                 /\ f.fsCalls = 0
                                 /\ f.nSuccess = 0

\* A setItem with an onSuccess callback, made while initialize() was
\* pending, has been rejected with the failure of makeDirectoryAsync.
C3_Witness ==
    \E i \in Slots :
        LET f == calls[i]
        IN  /\ Settled(i) /\ f.op = "setItem" /\ f.onSuccess /\ f.early
            /\ initializationPromise = "rejected"
            /\ initError = FsError("makeDirectoryAsync", "EIO")
            /\ f.status = "rejected"

\* C4 as claimed: on an initialized instance every getItem of a key that
\* was never set - no file at its path, no failure of the device - resolves
\* to the empty string and does not invoke onFail, the first call and
\* every later call alike.
C4_NeverSetAlwaysEmpty ==
    \A i \in Slots :
        LET f == calls[i]
        IN  (/\ Settled(i) /\ f.op = "getItem" /\ f.fsCalls > 0
             /\ f.key \notin everSet /\ ~f.stored /\ ~f.fault)
            => /\ f.status = "resolved"
               /\ f.result = StrResult("")
               /\ f.nFail = 0

\* C4: for a key with no file at its path, as every key never set, the
\* first getItem since construction or the last clear() resolves to the
\* empty string, invoking neither callback and logging no error; every
\* later getItem before the next clear() logs the failure of the read,
\* invokes onFail when supplied and rejects.
C4_OnlyFirstReadOfMissingIsEmpty ==
    \A i \in Slots :
        LET f == calls[i]
        IN  (Settled(i) /\ f.op = "getItem" /\ f.solo /\ f.fsCalls > 0 /\ ~f.stored)
            => IF ~f.readBefore
               THEN /\ f.status = "resolved"
                    /\ f.result = StrResult("")
                    /\ f.nFail = 0 /\ f.nSuccess = 0 /\ f.nErrLog = 0
               ELSE /\ f.status = "rejected"
                    /\ f.nErrLog = 1
                    /\ f.nFail = IF f.onFail THEN 1 ELSE 0
                    /\ f.error = IF f.failThrew THEN CallbackError("onFail") ELSE f.fsError
                    /\ f.fsError.call = "readAsStringAsync"

\* A second getItem of a key never set has rejected after invoking onFail.
C4_Witness ==
    \E i \in Slots :
        LET f == calls[i]
        IN  /\ Settled(i) /\ f.op = "getItem" /\ f.solo /\ f.fsCalls = 2
            /\ everSet = {} /\ f.readBefore /\ ~f.fault /\ f.onFail
            /\ f.status = "rejected" /\ f.nFail = 1
            /\ f.error = FsError("readAsStringAsync", "ENOENT")

\* C5: when clear() has resolved and no other call came before a following
\* getAllKeys() or hasStoredItems(), whatever was stored before, getAllKeys
\* resolves to the empty sequence and hasStoredItems to false.
C5_ClearEmptiesTheStore ==
    \A i \in Slots :
        LET f == calls[i]
        IN  (Settled(i) /\ f.solo /\ f.prev.op = "clear")
            => /\ (f.op = "getAllKeys" /\ ~f.fault /\ ~f.successThrew)
                    => /\ f.status = "resolved"
                       /\ f.result = SeqResult(<<>>)
                       /\ f.nFail = 0
               /\ f.op = "hasStoredItems"
                    => /\ f.status = "resolved"
                       /\ f.result = BoolResult(FALSE)

\* getAllKeys has answered after a clear() of a store a key was set in.
C5_Witness ==
    \E i \in Slots :
        LET f == calls[i]
        IN  /\ Settled(i) /\ f.solo /\ f.prev.op = "clear"
            /\ f.op = "getAllKeys" /\ f.status = "resolved"
            /\ everSet # {} /\ invoked = 3 /\ faults = 0
            /\ initializationPromise = "resolved"

\* C6, what a removeItem of a key without a file answers: it resolves,
\* logs no error, does not invoke onFail and invokes onSuccess when supplied.
RemoveOfMissingSucceeds ==
    \A i \in Slots :
        LET f == calls[i]
        IN  (/\ Settled(i) /\ f.op = "removeItem" /\ f.solo /\ f.fsCalls > 0
             /\ ~f.stored /\ ~f.fault /\ ~f.successThrew)
            => /\ f.status = "resolved"
               /\ f.nFail = 0 /\ f.nErrLog = 0
               /\ f.nSuccess = IF f.onSuccess THEN 1 ELSE 0

\* C6, what a second removeItem of the same key leaves: while it runs
\* alone after the first has resolved, no step changes the store.
SecondRemoveChangesNothing ==
    \A i \in Slots :
        LET f == calls[i]
        IN  (/\ f.op = "removeItem" /\ f.solo
             /\ f.prev = [op |-> "removeItem", key |-> f.key, val |-> NoValue])
            => UNCHANGED fileSystem

\* C6: removeItem(k) of a key with no stored file resolves without error,
\* does not invoke onFail and invokes onSuccess if supplied; removing the
\* same key twice leaves the store as removing it once.
C6_RemoveItemIsIdempotent ==
    /\ []RemoveOfMissingSucceeds
    /\ [][SecondRemoveChangesNothing]_vars

\* A second removeItem of the same key, with onSuccess, has resolved.
C6_Witness ==
    \E i \in Slots :
        LET f == calls[i]
        IN  /\ Settled(i) /\ f.op = "removeItem" /\ f.solo /\ f.onSuccess
            /\ f.prev = [op |-> "removeItem", key |-> f.key, val |-> NoValue]
            /\ ~f.stored /\ f.fsCalls = 1
            /\ f.status = "resolved" /\ f.nSuccess = 1
            /\ everSet = {f.key}

\* C7: itemExists(k) made next after a resolved setItem(k, v) resolves to
\* true, unless getInfoAsync itself fails; made next after a resolved
\* removeItem(k) it resolves to false.
C7_ItemExistsFollowsSetAndRemove ==
    \A i \in Slots :
        LET f == calls[i]
        IN  (Settled(i) /\ f.op = "itemExists" /\ f.solo /\ f.prev.key = f.key)
            => /\ (f.prev.op = "setItem" /\ ~f.fault)
                    => f.status = "resolved" /\ f.result = BoolResult(TRUE)
               /\ f.prev.op = "removeItem"
                    => f.status = "resolved" /\ f.result = BoolResult(FALSE)

\* itemExists has answered false after the removeItem of a key that was set.
C7_Witness ==
    \E i \in Slots :
        LET f == calls[i]
        IN  /\ Settled(i) /\ f.op = "itemExists" /\ f.solo
            /\ f.prev = [op |-> "removeItem", key |-> f.key, val |-> NoValue]
            /\ everSet = {f.key} /\ faults = 0
            /\ f.result = BoolResult(FALSE)

\* C8 as claimed, for the key of a setItem that has just resolved: the
\* sequence getAllKeys() resolves to next contains that key as the caller
\* passed it to setItem.
C8_GetAllKeysListsTheKeySet ==
    \A i \in Slots :
        LET f == calls[i]
        IN  (/\ Settled(i) /\ f.op = "getAllKeys" /\ f.solo
             /\ f.prev.op = "setItem" /\ f.status = "resolved")
            => \E n \in 1..Len(f.result.seq) : f.result.seq[n] = f.prev.key

\* The message prefixes handleStorageError is given by an operation.
ErrorPrefixes(op) ==
    IF op = "getItem" THEN {"getItem", "getItem:firstRead"} ELSE {op}

\* The frame's onFail was given the wrapped form of the error e.
GivenWrapped(f, e) ==
    /\ f.nFail = 1
    /\ f.failArg.kind = "wrapped"
    /\ f.failArg.call = e.call /\ f.failArg.code = e.code
    /\ f.failArg.prefix \in ErrorPrefixes(f.op)

C10_OnFailOnEveryRejection ==
    \A i \in Slots :
        LET f == calls[i]
        IN  (Settled(i) /\ f.op \in CallbackOps /\ f.onFail /\ f.status = "rejected")
            => f.nFail = 1 /\ f.nErrLog = 1

\* C11 as claimed: whenever initialize() has succeeded, each configured
\* hook has been invoked exactly once, whether the storage directory
\* existed or had to be created.
C11_HooksOnceOnSuccess ==
    initializationPromise = "resolved" =>
        /\ nBeforeInit = (IF hasBeforeInit THEN 1 ELSE 0)
        /\ nAfterInit = (IF hasAfterInit THEN 1 ELSE 0)

\* C12 as claimed: for every instance, one constructed with a storagePath of
\* the caller included, the storagePath ends in a separator and the path
\* of every key is a child of the storage directory, so that a file
\* written by setItem is listed: hasStoredItems() made next after a
\* resolved setItem resolves to true, and getAllKeys() to a non-empty
\* sequence, unless the listing itself fails.
C12_WrittenFileIsListed ==
    \A i \in Slots :
        LET f == calls[i]
        IN  (Settled(i) /\ f.solo /\ f.prev.op = "setItem" /\ ~f.fault)
            => /\ f.op = "hasStoredItems" => f.result = BoolResult(TRUE)
               /\ (f.op = "getAllKeys" /\ f.status = "resolved") => Len(f.result.seq) > 0

\* The characters the reference encoder keeps.
AllowedChars == Lower \cup Upper \cup Digits \cup {".", "-", "_"}

\* The reference encoder: character by character, an allowed character is
\* kept and any other becomes one "-".
ReferenceSegment(key) ==
    [i \in 1..Len(key) |-> IF key[i] \in AllowedChars THEN key[i] ELSE "-"]

OnlyAllowed(key) == \A i \in 1..Len(key) : key[i] \in AllowedChars

\* The segment of a path pathForKey has returned.
SegmentOf(path) == SubSeq(path, Len(storagePath) + 1, Len(path))

\* C13: the segment pathForKey appends to storagePath is that of the
\* reference encoder; it has the length of the key; applying pathForKey
\* again gives the same path; and another key made of allowed characters
\* only has another segment than a key made of allowed characters only.
C13_EncoderIsTheReference ==
    ret # Nothing =>
        /\ SubSeq(ret, 1, Len(storagePath)) = storagePath
        /\ SegmentOf(ret) = ReferenceSegment(arg)
        /\ Len(SegmentOf(ret)) = Len(arg)
        /\ PathForKey(storagePath, arg) = ret
        /\ OnlyAllowed(arg) =>
            \A k \in KeySamples :
                (OnlyAllowed(k) /\ k # arg) => SegmentOf(PathForKey(storagePath, k)) # SegmentOf(ret)

\* pathForKey has encoded a key of a letter and a code unit beyond ASCII
\* whose upper case is an ASCII letter.
C13_Witness ==
    /\ arg = <<"k", "U+017F">>
    /\ ret = storagePath \o <<"k", "-">>

\* C14 as claimed: a logStoredItems() one of whose reads of a key has
\* failed still resolves.
C14_LogStoredItemsSurvivesFailedRead ==
    \A i \in Slots :
        LET f == calls[i]
        IN  (/\ Settled(i) /\ f.op = "logStoredItems"
             /\ f.fsError.call = "readAsStringAsync")
            => f.status = "resolved"

\* C15 as claimed: on an instance with debug = false the debug sink is
\* never invoked, by initialize() or by any operation.
C15_DebugOffSinkSilent == ~debug => debugSink = {}

\* With debug = false nothing reaches the debug sink through
\* logDebugMessageInDebugMode.
NoGatedMessageWhenDebugOff == ~debug => "debugMode" \notin debugSink

\* With debug = false the step that invokes the debug sink first is a step
\* of logStoredItems after its gate.
OnlyLogStoredItemsLogsWhenDebugOff ==
    (~debug /\ debugSink = {} /\ debugSink' # {})
        => \E i \in Slots :
            /\ calls[i].op = "logStoredItems"
            /\ calls[i].pc \in {"logHas", "logReads"}
            /\ calls'[i] # calls[i]

\* C15: on an instance with debug = false the debug sink is invoked
\* neither by the constructor and initialize() nor by any operation but
\* logStoredItems, which hands it "No stored items found" or the content
\* of each key whatever the debug option is.
C15_DebugOffOnlyLogStoredItemsLogs ==
    /\ []NoGatedMessageWhenDebugOff
    /\ [][OnlyLogStoredItemsLogsWhenDebugOff]_vars

\* With debug = false a logStoredItems() has logged a stored item after a
\* setItem that logged nothing.
C15_Witness ==
    \E i \in Slots :
        LET f == calls[i]
        IN  /\ Settled(i) /\ f.op = "logStoredItems" /\ f.solo
            /\ f.prev.op = "setItem" /\ f.status = "resolved" /\ f.fsCalls = 3
            /\ ~debug /\ debugSink = {"direct"}

\* C16: on an initialized instance itemExists(k) and hasStoredItems()
\* always resolve, and to false when the existence query or the listing
\* has failed.
C16_AdvisoryOperationsNeverReject ==
    \A i \in Slots :
        LET f == calls[i]
        IN  (Settled(i) /\ f.op \in {"itemExists", "hasStoredItems"} /\ f.fsCalls > 0)
            => /\ f.status = "resolved"
               /\ f.result.kind = "bool"
               /\ f.fsError # NoError => f.result = BoolResult(FALSE)

\* hasStoredItems() has answered false for a store with an item in it,
\* because the listing failed.
C16_Witness ==
    \E i \in Slots :
        LET f == calls[i]
        IN  /\ Settled(i) /\ f.op = "hasStoredItems" /\ f.solo
            /\ f.prev.op = "setItem" /\ DirEntries # {}
            /\ f.fsError = FsError("readDirectoryAsync", "EIO")
            /\ f.status = "resolved" /\ f.result = BoolResult(FALSE)

\* C17 as claimed: whenever a file-system call made for an operation has
\* failed for a reason of the device and the operation has nevertheless
\* resolved, the failure was reported through the error sink.
C17_NoSilentlySwallowedFailure ==
    \A i \in Slots :
        LET f == calls[i]
        IN  (Settled(i) /\ f.fault /\ f.status = "resolved") => f.nErrLog >= 1

\* C18 as claimed: whenever initialize() has failed, whichever step failed,
\* the failure was reported through the error sink.
C18_FailedInitializationIsLogged ==
    initializationPromise = "rejected" => initErrorLogged

\* The normalization of a string as the specification defines it: every
\* element of a sequence and every value of a mapping is made a string
\* when it is not one, and then normalized.
RECURSIVE Normalize(_)
Normalize(raw) ==
    LET parsed == JsonParse(raw)
        v == parsed.val
    IN  IF ~parsed.ok THEN raw
        ELSE IF IsNumericJsonValue(v) THEN v
        ELSE IF TypeOf(v) = "array"
        THEN JsArray([n \in 1..Len(Held(v)) |-> Normalize(ConvertToString(Held(v)[n]))])
        ELSE IF TypeOf(v) = "object"
        THEN JsObject([n \in 1..Len(Held(v)) |->
                        <<Held(v)[n][1], Normalize(ConvertToString(Held(v)[n][2]))>>])
        ELSE v

\* C19 as claimed: deepParseJson returns for every string; a string that
\* is not JSON is returned unchanged; for a string that parses to a mapping
\* the result is a mapping of the same keys, in which the value of each
\* key is the deep normalization of the parsed value.
C19_DeepParseJsonNormalizesMappings ==
    ret # Nothing =>
        LET parsed == JsonParse(arg)
            entries == Held(parsed.val)
        IN  /\ ~parsed.ok => ret = arg
            /\ (parsed.ok /\ TypeOf(parsed.val) = "object")
                => /\ TypeOf(ret) = "object"
                   /\ Len(Held(ret)) = Len(entries)
                   /\ \A n \in 1..Len(entries) :
                        /\ Held(ret)[n][1] = entries[n][1]
                        /\ Held(ret)[n][2] = Normalize(ConvertToString(entries[n][2]))

\* C20 as claimed: for a string that parses to a sequence deepParseJson
\* returns a sequence of the same length whose every element is the deep
\* normalization of the parsed element, made a string first when it is
\* not one.
C20_DeepParseJsonNormalizesSequences ==
    ret # Nothing =>
        LET parsed == JsonParse(arg)
            elements == Held(parsed.val)
        IN  (parsed.ok /\ TypeOf(parsed.val) = "array")
                => /\ TypeOf(ret) = "array"
                   /\ Len(Held(ret)) = Len(elements)
                   /\ \A n \in 1..Len(elements) :
                        Held(ret)[n] = Normalize(ConvertToString(elements[n]))

\* The read of a getItem has failed: the first failure of the call is that
\* of readAsStringAsync.
ReadFailed(f) == f.op = "getItem" /\ f.fsError.call = "readAsStringAsync"

\* The existence check that followed the failed read has itself failed.
ExistenceUndetermined(f) == f.fault /\ f.fsError.code # "EIO"

\* C22 as claimed: a getItem whose read has failed resolves to the empty
\* string, silently, only for a key not read since construction or the last
\* clear() whose file does not exist at the existence check; when the key
\* was read before, or the file exists, or its existence could not be
\* determined, the failure is logged, offered to onFail and re-raised.
C22_SilentOnlyForConfirmedFirstMiss ==
    \A i \in Slots :
        LET f == calls[i]
        IN  (Settled(i) /\ f.solo /\ ReadFailed(f)) =>
                /\ (f.status = "resolved")
                    => /\ f.result = StrResult("")
                       /\ f.nErrLog = 0 /\ f.nFail = 0
                       /\ ~f.readBefore /\ ~f.stored /\ ~ExistenceUndetermined(f)
                /\ (f.readBefore \/ f.stored \/ ExistenceUndetermined(f))
                    => /\ f.status = "rejected"
                       /\ f.nErrLog = 1
                       /\ f.onFail => f.nFail = 1

\* One step of initialize() keeps the order of its steps: while beforeInit
\* runs, nothing else of the initialization happens; makeDirectoryAsync is
\* issued exactly when getInfoAsync has reported the directory absent;
\* afterInit is invoked only when getInfoAsync has reported it present; and
\* the promise resolves only when the step that was running has completed,
\* the directory being there.
InitializeStepsInOrder ==
    /\ initPc = "beforeInit"
        => /\ initPc' \in {"beforeInit", "getInfo", "done"}
           /\ UNCHANGED <<fsDir, nAfterInit, faults>>
           /\ initializationPromise' # "resolved"
    /\ (initPc' = "makeDirectory" /\ initPc # "makeDirectory")
        => initPc = "getInfo" /\ ~fsDir
    /\ (initPc = "getInfo" /\ initPc' # "getInfo" /\ faults' = faults /\ ~fsDir)
        => initPc' = "makeDirectory"
    /\ nAfterInit' # nAfterInit
        => initPc = "getInfo" /\ fsDir /\ initPc' = "afterInit"
    /\ (initializationPromise' = "resolved" /\ initializationPromise # "resolved")
        => /\ initPc \in {"getInfo", "makeDirectory", "afterInit"}
           /\ initPc' = "done"
           /\ fsDir'
           /\ initPc = "getInfo" => ~hasAfterInit

\* C23: initialize() runs its steps in order, each completed before the
\* next starts: beforeInit before the existence query, the creation of the
\* directory if and only if the query reported it absent, afterInit only
\* after the query reported it present, and the initialization does not
\* succeed before the last step it started has completed.
C23_InitializationInOrder ==
    /\ [](initPc = "done" <=> initializationPromise # "pending")
    /\ [][InitializeStepsInOrder]_vars

\* The initialization has succeeded by creating the directory, after beforeInit.
C23_Witness ==
    /\ initializationPromise = "resolved"
    /\ hasBeforeInit /\ nBeforeInit = 1
    /\ nAfterInit = 0
    /\ fsDir

\* No step starts initialize() again: beforeInit is not invoked after the
\* constructor, and the initialization only moves on, from beforeInit to
\* the one existence query and from there to its end.
InitializeNeverRestarts ==
    /\ nBeforeInit' = nBeforeInit
    /\ initPc' = "beforeInit" => initPc = "beforeInit"
    /\ initPc' = "getInfo" => initPc \in {"beforeInit", "getInfo"}
    /\ initPc = "done" => initPc' = "done"
    /\ initializationPromise # "pending" => initializationPromise' = initializationPromise

\* C24: the initialization is started once, by the constructor, and never
\* again, whatever operations are called and however they interleave:
\* beforeInit is invoked at most once, the existence query of initialize()
\* is issued at most once, the promise is always there and no operation
\* fails with INITIALIZATION_PROMISE_NOT_FOUND.
C24_InitializedExactlyOnce ==
    /\ [](/\ initializationPromise \in {"pending", "resolved", "rejected"}
          /\ nBeforeInit <= 1
          /\ \A i \in Slots : calls[i].error # InitializationPromiseNotFound)
    /\ [][InitializeNeverRestarts]_vars

\* Two operations were called while initialize() was running, beforeInit
\* and all, and have waited for it; one of them has returned.
C24_Witness ==
    /\ hasBeforeInit /\ nBeforeInit = 1
    /\ initializationPromise = "resolved"
    /\ \E i, j \in Slots :
        /\ i # j
        /\ Settled(i) /\ calls[i].early /\ calls[i].status = "resolved"
        /\ calls[j].early /\ calls[j].pc # "idle"

\* The path and the encoded segment of every key; what a getItem(k) would
\* read and what an itemExists(k) would answer, the file system not failing.
KeyPaths == [sp \in StoragePaths |-> [k \in Keys |-> PathForKey(sp, k)]]
KeySegments == [k \in Keys |-> ReferenceSegment(k)]
WouldRead(k) == ReadFile(KeyPaths[storagePath][k], FALSE)
WouldExist(k) == ItemExistsResult(GetInfo(KeyPaths[storagePath][k], FALSE))

\* The step is the writeAsStringAsync of a setItem or the deleteAsync of a
\* removeItem of the call in slot i.
WritesOrDeletes(i) ==
    /\ calls[i].pc \in {"write", "delete"}
    /\ calls'[i].fsCalls = calls[i].fsCalls + 1

\* Such a step leaves alone every key of another encoded segment, and
\* shows to every key of the same segment what it did for its own: the
\* value written, or no file; when the call of the file system failed, it
\* shows nothing to anyone.
ChangesOneSegmentOnly ==
    \A i \in Slots :
        WritesOrDeletes(i) =>
            \A k \in Keys :
                IF KeySegments[k] # KeySegments[calls[i].key]
                        \/ calls'[i].fsError # NoError
                THEN WouldRead(k)' = WouldRead(k) /\ WouldExist(k)' = WouldExist(k)
                ELSE IF calls[i].op = "setItem"
                THEN /\ WouldRead(k)' = [ok |-> TRUE, content |-> calls[i].val, error |-> NoError]
                     /\ WouldExist(k)'
                ELSE /\ ~WouldRead(k)'.ok
                     /\ ~WouldExist(k)'

\* C25: setItem(k, v) and removeItem(k) change the one file named by the
\* encoding of k: what getItem and itemExists return for a key of another
\* encoded segment is unchanged, and a key of the same segment ('a:b' and
\* 'a/b') is given what the operation did.
C25_OnlyTheEncodedFileChanges == [][ChangesOneSegmentOnly]_vars

\* A setItem('a:b', 'x') has resolved while 'c' is stored: 'a/b' reads 'x'.
C25_Witness ==
    \E i \in Slots :
        /\ Settled(i) /\ calls[i].op = "setItem" /\ calls[i].status = "resolved"
        /\ calls[i].key = <<"a", ":", "b">> /\ calls[i].val = "x"
        /\ WouldRead(<<"a", "/", "b">>).content = "x"
        /\ WouldExist(<<"c">>)

\* The file-system calls an operation makes before it calls onSuccess.
CallsBeforeOnSuccess(op) == IF op = "clear" THEN 2 ELSE 1

\* C26 as claimed: in getItem, setItem, removeItem, clear and getAllKeys
\* onSuccess is invoked at most once per call, only after the file-system
\* calls of the operation have succeeded and before the promise settles;
\* what getItem and getAllKeys resolve to is what they gave to onSuccess.
C26_OnSuccessOnceWithTheResult ==
    \A i \in Slots :
        LET f == calls[i]
        IN  /\ f.nSuccess <= 1
            /\ f.nSuccess = 1 => f.onSuccess /\ f.op \in CallbackOps
            /\ f.pc = "onSuccess"
                => /\ f.nSuccess = 1
                   /\ f.status = "none"
                   /\ f.fsError = NoError
                   /\ f.fsCalls = CallsBeforeOnSuccess(f.op)
            /\ (Settled(i) /\ f.status = "resolved" /\ f.nSuccess = 1
                    /\ f.op \in {"getItem", "getAllKeys"})
                => f.result = f.successArg

\* The writeAsStringAsync of the setItem in slot i has been processed.
Written(i) ==
    /\ calls[i].op = "setItem"
    /\ calls[i].fsCalls = 1
    /\ calls[i].fsError = NoError

\* The step is the processing of the write of the setItem in slot i.
ProcessesWrite(i) == calls[i].pc = "write" /\ Written(i)'

\* Two setItem of one key are in flight and both writes have been processed.
BothWritten(i, j) ==
    /\ i # j
    /\ Written(i) /\ Written(j)
    /\ KeySegments[calls[i].key] = KeySegments[calls[j].key]

\* The write the file system processes is the value of the file from then
\* on, whole, whatever was written before; a step that processes no call
\* of the file system leaves the files as they are.
LastWriteWins ==
    /\ \A i \in Slots :
        ProcessesWrite(i) =>
            WouldRead(calls[i].key)' = [ok |-> TRUE, content |-> calls[i].val, error |-> NoError]
    /\ (\A i \in Slots : calls'[i].fsCalls = calls[i].fsCalls \/ calls'[i].pc = "idle")
        => fsFiles' = fsFiles

\* C27: when setItem calls for one key run concurrently, the file holds
\* exactly one of their values once they are written, the one whose write
\* the file system processed last: never a mixture, never another value.
C27_LastProcessedWriteWins ==
    /\ [](\A i, j \in Slots :
            BothWritten(i, j) =>
                \/ WouldRead(calls[i].key).content = calls[i].val
                \/ WouldRead(calls[i].key).content = calls[j].val)
    /\ [](\A i, j \in Slots : BothWritten(i, j) => WouldRead(calls[i].key).ok)
    /\ [][LastWriteWins]_vars

\* Two concurrent setItem of one key with different values have both been
\* written, and the file holds the value of the second slot.
C27_Witness ==
    /\ BothWritten(1, 2)
    /\ calls[1].val # calls[2].val
    /\ ~calls[1].solo /\ ~calls[2].solo
    /\ WouldRead(calls[1].key).content = calls[2].val

\* A step in which an operation issues a call of the file system other
\* than the makeDirectoryAsync of clear finds the storage directory there.
CallFindsStorageDirectory ==
    \A i \in Slots :
        (/\ initializationPromise = "resolved"
         /\ calls'[i].fsCalls = calls[i].fsCalls + 1
         /\ calls[i].pc # "clearMakeDir")
            => fsDir

\* C28 as claimed: once the initialization has succeeded, the storage
\* directory exists at every read, write, delete, listing and existence
\* call of every operation, in every interleaving, a clear() in progress or
\* failed included.
C28_DirectoryExistsAtEveryCall == [][CallFindsStorageDirectory]_vars

\* The value of the setItem that runs along with the call in slot i: that
\* of its frame while it is in flight, and that of the file once it has
\* returned.
ConcurrentlySet(i) ==
    LET j == CHOOSE s \in Slots : s # i
    IN  IF calls[j].op = "setItem" THEN calls[j].val ELSE WouldRead(calls[i].key).content

\* C29 as claimed: a first getItem(k) that runs concurrently with a
\* setItem(k, v) for a key not stored before, the file system not failing,
\* resolves to the empty string or to v in every interleaving; it does not
\* reject and does not invoke onFail.
C29_FirstReadAlongsideWrite ==
    \A i \in Slots :
        LET f == calls[i]
        IN  (/\ Settled(i) /\ f.op = "getItem" /\ f.first
             /\ ~f.solo /\ ~f.early /\ invoked = 2
             /\ everSet = {f.key}
             /\ faults = 0 /\ ~f.successThrew)
                => /\ f.status = "resolved"
                   /\ f.nFail = 0
                   /\ f.result \in {StrResult(""), StrResult(ConcurrentlySet(i))}

\* C30 as claimed: in one call of getItem, setItem, removeItem, clear or
\* getAllKeys at most one of onSuccess and onFail is invoked, whatever the
\* file system and the callbacks do, an onSuccess that throws included.
C30_AtMostOneCallback ==
    \A i \in Slots : calls[i].nSuccess + calls[i].nFail <= 1


\* C21: the debug option and the deep normalization of what is logged
\* change nothing of what is persisted or returned: an instance with debug
\* on and one with debug off, run through the same operations with the file
\* system behaving the same, issue the same calls of the file system,
\* leave the same files, return the same results and invoke the same
\* callbacks with the same arguments.
C21_DebugChangesNothingObserved ==
    firstRun.done =>
        \A n \in 1..Len(observed) : observed[n] = firstRun.seen[n]

\* Both instances are through a setItem and a getItem of the key; the
\* second ran with debug on, and its getItem returned the value.
C21_Witness ==
    /\ firstRun.done
    /\ debug
    /\ Len(observed) = MaxReplayOps
    /\ observed[1].call.call.op = "setItem"
    /\ observed[2].call.call.op = "getItem"
    /\ observed[2].call.result = StrResult("x")
    /\ observed[2].call.nSuccess = 1

\* C33 as claimed: the readiness flag follows the initialization: in every
\* state isInitialized is true if and only if initialize() has settled
\* successfully, whether the storage directory was there or was created.
C33_FlagFollowsInitialization ==
    isInitialized <=> initializationPromise = "resolved"

C31_EveryCallSettles ==
    \A i \in Slots :
        calls[i].pc = "wait"
            ~> (calls[i].pc = "done" /\ calls[i].status \in {"resolved", "rejected"})

\* A logStoredItems invoked while initialize() was pending has settled, on
\* an instance whose initialization created the directory, while a call
\* invoked after the initialization settled is still waiting.
C31_Witness ==
    \E i, j \in Slots :
        /\ calls[i].pc = "done" /\ calls[i].early
        /\ calls[i].op = "logStoredItems"
        /\ calls[i].status \in {"resolved", "rejected"}
        /\ calls[j].pc = "wait" /\ ~calls[j].early
        /\ initializationPromise = "resolved" /\ ~isInitialized

====
